---------------------------- MODULE Spec2Model ----------------------------
(***************************************************************************)
(* FedMCP server: artifact signing / verification (fedmcp/artifact.py),   *)
(* the reference server (src/fedmcp_server.py: storage backends, audit    *)
(* log, create / get / verify handlers) and the audit middleware of the   *)
(* light-weight server (src/fed_server.py).                               *)
(*                                                                         *)
(* The specifications of the module:                                      *)
(*   SpecLib   sign_artifact / verify_artifact as pure functions, applied *)
(*             to inputs drawn from bounded sets, with token tampering;   *)
(*   Spec      the reference server handling requests one at a time;      *)
(*   SpecConc  CreateArtifact requests in flight together;                *)
(*   SpecAudit the audit log and get_audit_events;                        *)
(*   SpecStore the storage backends and list_artifacts;                   *)
(*   SpecMw    the audit middleware of fed_server.py.                     *)
(***************************************************************************)
EXTENDS Integers, Sequences, FiniteSets, TLC

VARIABLES
    lib,         \* SpecLib: one sign / tamper / verify experiment
    files,       \* storage backend content: key -> serialized document
    audit_logs,  \* fedmcp_server.audit_logs, a Python list
    pc,          \* per request slot: position inside the handler
    req,         \* per request slot: the request being handled
    resp,        \* per request slot: the response (or the error) sent
    loc,         \* per request slot: the handler's local variables
    snap,        \* per request slot: audit log length and storage at receipt
    backend,     \* STORAGE_TYPE chosen at start-up: "local" or "s3"
    nreq,        \* number of requests received so far
    mw           \* SpecMw: one request through audit_middleware

vars == <<lib, files, audit_logs, pc, req, resp, loc, snap, backend, nreq, mw>>

srvVars == <<files, audit_logs, pc, req, resp, loc, snap, backend, nreq>>

(***************************************************************************)
(* Bounds of the model.                                                    *)
(***************************************************************************)
\* ECDSA nonces a signer may draw: 1..MaxNonce
MaxNonce == 2
\* characters or bits of a base64url segment that the decoder discards
MaxExtra == 1
\* requests the server receives in one run
MaxReqs == 2
\* largest limit of an audit query
MaxLimit == 2
\* audit events recorded in one run of SpecAudit
MaxLog == 3

(***************************************************************************)
(* Python values.  Every value has the same record shape so that values   *)
(* of different Python types can be compared: k is the Python type, s    *)
(* the text of a str, n the number of an int, d the items of a dict and   *)
(* j the compact JWS a str holds, when it holds one.                      *)
(* A dict is the sequence of its (key, value) items in insertion order.   *)
(***************************************************************************)
PyStr(x) == [k |-> "str", s |-> x, n |-> 0, d |-> <<>>, j |-> <<>>]

PyInt(i) == [k |-> "int", s |-> "", n |-> i, d |-> <<>>, j |-> <<>>]

PyNone == [k |-> "none", s |-> "", n |-> 0, d |-> <<>>, j |-> <<>>]

PyDict(items) == [k |-> "dict", s |-> "", n |-> 0, d |-> items, j |-> <<>>]

\* uuid.UUID object holding the canonical text of the identifier
PyUuid(x) == [k |-> "uuid", s |-> x, n |-> 0, d |-> <<>>, j |-> <<>>]

\* a str holding a compact JWS (the empty token is the empty str)
PyJws(tok) == [k |-> "str", s |-> "", n |-> 0, d |-> <<>>, j |-> tok]

PyBool(b) == [k |-> "bool", s |-> "", n |-> IF b THEN 1 ELSE 0, d |-> <<>>, j |-> <<>>]

\* a Python list: d holds its items in order, each under the empty key
PyList(items) ==
    [k |-> "list", s |-> "", n |-> 0,
     d |-> [i \in 1..Len(items) |-> <<"", items[i]>>], j |-> <<>>]

\* the items of a list
Items(v) == [i \in 1..Len(v.d) |-> v.d[i][2]]

HasKey(v, key) == v.k = "dict" /\ \E i \in 1..Len(v.d) : v.d[i][1] = key

\* v[key] of a dict that holds key (json.loads keeps the last duplicate)
Get(v, key) ==
    LET idx == {i \in 1..Len(v.d) : v.d[i][1] = key}
        last == CHOOSE i \in idx : \A j \in idx : j <= i
    IN  v.d[last][2]

(***************************************************************************)
(* Artifacts (fedmcp/artifact.py, class Artifact).                        *)
(***************************************************************************)
ArtifactFields == <<"id", "type", "version", "workspaceId", "createdAt", "jsonBody">>

CreatedAt == "2024-01-01T00:00:00Z"

MkArtifact(id, type, version, ws, body) ==
    PyDict(<< <<"id", PyStr(id)>>, <<"type", PyStr(type)>>, <<"version", PyInt(version)>>,
            <<"workspaceId", PyStr(ws)>>, <<"createdAt", PyStr(CreatedAt)>>,
            <<"jsonBody", body>> >>)

BodyX == PyDict(<< <<"rule", PyStr("x")>> >>)

BodyY == PyDict(<< <<"rule", PyStr("y")>>, <<"n", PyInt(7)>> >>)

BodyEmpty == PyDict(<<>>)

(***************************************************************************)
(* json.dumps / json.loads.  The text is modelled as its sequence of      *)
(* lexical tokens: punctuation, string literals, number literals.         *)
(***************************************************************************)
P(c) == [t |-> "p", s |-> c, n |-> 0, j |-> <<>>]

S(x) == [t |-> "s", s |-> x, n |-> 0, j |-> <<>>]

\* the string literal of a str value
StrLit(v) == [t |-> "s", s |-> v.s, n |-> 0, j |-> v.j]

N(i) == [t |-> "n", s |-> "", n |-> i, j |-> <<>>]

RECURSIVE json_dumps(_)
RECURSIVE DumpItems(_, _)

\* the members of a dict from item i on, separated by commas
DumpItems(items, i) ==
    IF i > Len(items) THEN <<>>
    ELSE (IF i > 1 THEN <<P(",")>> ELSE <<>>)
         \o <<S(items[i][1]), P(":")>> \o json_dumps(items[i][2])
         \o DumpItems(items, i + 1)

json_dumps(v) ==
    CASE v.k = "str"  -> <<StrLit(v)>>
      [] v.k = "int"  -> <<N(v.n)>>
      [] v.k = "none" -> <<P("null")>>
      [] v.k = "bool" -> <<P(IF v.n = 1 THEN "true" ELSE "false")>>
      [] v.k = "dict" -> <<P("{")>> \o DumpItems(v.d, 1) \o <<P("}")>>

ParseFail == [ok |-> FALSE, v |-> PyNone, rest |-> <<>>]

RECURSIVE ParseValue(_)
RECURSIVE ParseMembers(_, _)

\* after "{" or ",": a "key": value member, then "," or "}"
ParseMembers(toks, acc) ==
    IF Len(toks) < 2 \/ toks[1].t # "s" \/ toks[2] # P(":") THEN ParseFail
    ELSE LET r == ParseValue(SubSeq(toks, 3, Len(toks)))
         IN  IF ~r.ok \/ r.rest = <<>> THEN ParseFail
             ELSE LET items == Append(acc, <<toks[1].s, r.v>>)
                  IN  IF Head(r.rest) = P("}")
                        THEN [ok |-> TRUE, v |-> PyDict(items), rest |-> Tail(r.rest)]
                      ELSE IF Head(r.rest) = P(",")
                        THEN ParseMembers(Tail(r.rest), items)
                      ELSE ParseFail

ParseValue(toks) ==
    IF toks = <<>> THEN ParseFail
    ELSE LET h == Head(toks)
         IN  CASE h.t = "s" -> [ok |-> TRUE, v |-> [PyStr(h.s) EXCEPT !.j = h.j], rest |-> Tail(toks)]
               [] h.t = "n" -> [ok |-> TRUE, v |-> PyInt(h.n), rest |-> Tail(toks)]
               [] h = P("null") -> [ok |-> TRUE, v |-> PyNone, rest |-> Tail(toks)]
               [] h = P("true") -> [ok |-> TRUE, v |-> PyBool(TRUE), rest |-> Tail(toks)]
               [] h = P("false") -> [ok |-> TRUE, v |-> PyBool(FALSE), rest |-> Tail(toks)]
               [] h = P("{") ->
                    IF Len(toks) >= 2 /\ toks[2] = P("}")
                      THEN [ok |-> TRUE, v |-> PyDict(<<>>), rest |-> SubSeq(toks, 3, Len(toks))]
                    ELSE ParseMembers(Tail(toks), <<>>)
               [] OTHER -> ParseFail

\* json.loads: [ok, v]; ok = FALSE stands for json.JSONDecodeError
json_loads(toks) ==
    LET r == ParseValue(toks)
    IN  IF r.ok /\ r.rest = <<>> THEN [ok |-> TRUE, v |-> r.v]
        ELSE [ok |-> FALSE, v |-> PyNone]

(***************************************************************************)
(* Compact JWS tokens (jwcrypto, used by fedmcp/artifact.py).              *)
(*                                                                         *)
(* A token is the sequence of its "."-separated segments.  A base64url    *)
(* segment is modelled by the bytes it carries (data), by the number of   *)
(* characters or trailing bits in it that the decoder discards (extra:    *)
(* 0 in the canonical encoding) and by whether its length is decodable    *)
(* at all (ok).  ECDSA is modelled symbolically: a signature names the    *)
(* key pair that made it, the signing input it covers, the nonce r, and   *)
(* which of the two s values (s or n - s) it carries.                     *)
(***************************************************************************)
KeyPairs == {"k1", "k2"}

pem_private(k) == [pair |-> k, private |-> TRUE]

pem_public(k) == [pair |-> k, private |-> FALSE]

\* jwk.JWK.from_pem: the key object of a PEM text
from_pem(pem) == pem

base64url_encode(data) == [data |-> data, extra |-> 0, ok |-> TRUE]

\* jwcrypto.common.base64url_decode: pads, then base64.urlsafe_b64decode,
\* which drops what is outside the alphabet and the unused trailing bits
base64url_decode(seg) ==
    IF seg.ok THEN [ok |-> TRUE, data |-> seg.data]
    ELSE [ok |-> FALSE, data |-> <<>>]

ProtectedHeader(kid) ==
    PyDict(<< <<"alg", PyStr("ES256")>>, <<"kid", PyStr(kid)>>, <<"typ", PyStr("JWT")>> >>)

ECDSA_sign(key, input, r) ==
    [signer |-> key.pair, input |-> input, r |-> r, twin |-> FALSE]

\* the signature (r, n - s), valid whenever (r, s) is
Twin(sig) == [sig EXCEPT !.twin = ~sig.twin]

NoSig == [signer |-> "nobody", input |-> <<<<>>, <<>>>>, r |-> 0, twin |-> FALSE]

ECDSA_verify(key, input, sig) == sig.signer = key.pair /\ sig.input = input

\* JWS.add_signature + serialize(compact=True); r is the nonce ECDSA draws
JWS_sign(payload, key, header, r) ==
    LET h == json_dumps(header)
    IN  << base64url_encode(h), base64url_encode(payload),
           base64url_encode(ECDSA_sign(key, <<h, payload>>, r)) >>

\* sign_artifact signing the body of the artifact instead of the artifact
sign_artifact_BodyOnly(art, pem_priv, kid, r) ==
    JWS_sign(json_dumps(Get(art, "jsonBody")), from_pem(pem_priv), ProtectedHeader(kid), r)

\* fedmcp/artifact.py sign_artifact; r is the nonce ECDSA draws
sign_artifact(art, pem_priv, kid, r) ==
    JWS_sign(json_dumps(art), from_pem(pem_priv), ProtectedHeader(kid), r)

\* JWS.deserialize of a compact token: the decoded parts, or InvalidJWSObject
JWS_deserialize(tok) ==
    LET bad == [ok |-> FALSE, header |-> PyNone, hbytes |-> <<>>, payload |-> <<>>,
                signature |-> NoSig]
    IN  IF Len(tok) # 3 THEN bad
        ELSE LET h == base64url_decode(tok[1])
                 p == base64url_decode(tok[2])
                 s == base64url_decode(tok[3])
             IN  IF ~h.ok \/ ~p.ok \/ ~s.ok THEN bad
                 ELSE LET hv == json_loads(h.data)
                      IN  IF ~hv.ok \/ hv.v.k # "dict" THEN bad
                          ELSE [ok |-> TRUE, header |-> hv.v, hbytes |-> h.data,
                                payload |-> p.data, signature |-> s.data]

\* JWS.verify(key): the signing input is rebuilt from the decoded header and
\* payload; FALSE stands for InvalidJWSSignature
JWS_verify(key, jws) ==
    /\ HasKey(jws.header, "alg")
    /\ Get(jws.header, "alg") = PyStr("ES256")
    /\ ECDSA_verify(key, <<jws.hbytes, jws.payload>>, jws.signature)

VerifyError(e) == [ok |-> FALSE, err |-> e, art |-> PyNone]

VerifyOk(a) == [ok |-> TRUE, err |-> "", art |-> a]

\* verify_artifact with the workspace comparison left out
verify_artifact_NoBinding(jws_compact, pem_public_, expected_workspace) ==
    LET token == JWS_deserialize(jws_compact)
    IN  IF ~token.ok THEN VerifyError("InvalidJWSObject")
        ELSE IF ~JWS_verify(from_pem(pem_public_), token)
          THEN VerifyError("InvalidJWSSignature")
        ELSE VerifyOk(json_loads(token.payload).v)

\* verify_artifact with token.verify(key) left out
verify_artifact_NoVerify(jws_compact, pem_public_, expected_workspace) ==
    LET token == JWS_deserialize(jws_compact)
    IN  IF ~token.ok THEN VerifyError("InvalidJWSObject")
        ELSE LET art == json_loads(token.payload)
             IN  IF ~art.ok THEN VerifyError("JSONDecodeError")
                 ELSE IF ~HasKey(art.v, "workspaceId") THEN VerifyError("KeyError")
                 ELSE IF Get(art.v, "workspaceId") # PyStr(expected_workspace)
                   THEN VerifyError("workspaceId mismatch")
                 ELSE VerifyOk(art.v)

\* fedmcp/artifact.py verify_artifact: the artifact, or the exception raised
verify_artifact(jws_compact, pem_public_, expected_workspace) ==
    LET token == JWS_deserialize(jws_compact)
    IN  IF ~token.ok THEN VerifyError("InvalidJWSObject")
        ELSE IF ~JWS_verify(from_pem(pem_public_), token)
          THEN VerifyError("InvalidJWSSignature")
        ELSE LET art == json_loads(token.payload)
             IN  IF ~art.ok THEN VerifyError("JSONDecodeError")
                 ELSE IF ~HasKey(art.v, "workspaceId") THEN VerifyError("KeyError")
                 ELSE IF Get(art.v, "workspaceId") # PyStr(expected_workspace)
                   THEN VerifyError("workspaceId mismatch")
                 ELSE VerifyOk(art.v)

(***************************************************************************)
(* SpecLib: sign_artifact, an optional change of one segment of the       *)
(* token, then verify_artifact, on inputs drawn from bounded sets.        *)
(***************************************************************************)
LibIds == {"a1", "a2"}

LibWorkspaces == {"ws-1", "ws-2"}

LibBodies == {BodyX, BodyY, BodyEmpty}

LibArtifacts ==
    {MkArtifact(i, "policy", 1, w, b) : i \in LibIds, w \in LibWorkspaces, b \in LibBodies}

\* kid values a signer is called with ("workspace-root" is the CLI default)
Kids == {"kid-1", "kid-2", "workspace-root"}

\* the key identifier under which each key pair's public key is published
KidOf == [k \in KeyPairs |-> IF k = "k1" THEN "kid-1" ELSE "kid-2"]

\* the keyring of a verifier that holds the public key of pair k
KeyringOf(k) == {KidOf[k]}

LibStart ==
    [pc |-> "start", art |-> PyNone, key |-> "k1", kid |-> "", signed |-> <<>>,
     token |-> <<>>, changed |-> "none", pub |-> "k1", expect |-> "",
     res |-> VerifyError("")]

LibSign ==
    /\ lib.pc = "start"
    /\ \E a \in LibArtifacts, k \in KeyPairs, kid \in Kids, r \in 1..MaxNonce :
         LET tok == sign_artifact(a, pem_private(k), kid, r)
         IN  lib' = [lib EXCEPT !.pc = "signed", !.art = a, !.key = k, !.kid = kid,
                                !.signed = tok, !.token = tok]
    /\ UNCHANGED <<srvVars, mw>>

\* payload segments an altered token may carry
PayloadSegs ==
    LET orig == lib.signed[2]
        datas == {json_dumps(a) : a \in LibArtifacts}
                 \cup {SubSeq(orig.data, 1, Len(orig.data) - 1)}
    IN  {[data |-> d, extra |-> e, ok |-> TRUE] : d \in datas, e \in 0..MaxExtra}
        \cup {[orig EXCEPT !.ok = FALSE]}

\* signature segments an altered token may carry
SignatureSegs ==
    LET orig == lib.signed[3]
        sig == orig.data
        datas == {sig, Twin(sig), NoSig}
                 \cup {[sig EXCEPT !.r = r] : r \in 1..MaxNonce}
                 \cup {[sig EXCEPT !.signer = k] : k \in KeyPairs}
                 \cup {[sig EXCEPT !.input = <<sig.input[1], json_dumps(a)>>] :
                         a \in LibArtifacts}
    IN  {[data |-> d, extra |-> e, ok |-> TRUE] : d \in datas, e \in 0..MaxExtra}
        \cup {[orig EXCEPT !.ok = FALSE]}

LibTamperPayload ==
    /\ lib.pc = "signed"
    /\ \E seg \in PayloadSegs \ {lib.signed[2]} :
         lib' = [lib EXCEPT !.pc = "tampered", !.changed = "payload",
                            !.token = [lib.signed EXCEPT ![2] = seg]]
    /\ UNCHANGED <<srvVars, mw>>

LibTamperSignature ==
    /\ lib.pc = "signed"
    /\ \E seg \in SignatureSegs \ {lib.signed[3]} :
         lib' = [lib EXCEPT !.pc = "tampered", !.changed = "signature",
                            !.token = [lib.signed EXCEPT ![3] = seg]]
    /\ UNCHANGED <<srvVars, mw>>

LibVerify ==
    /\ lib.pc \in {"signed", "tampered"}
    /\ \E k \in KeyPairs, w \in LibWorkspaces :
         lib' = [lib EXCEPT !.pc = "verified", !.pub = k, !.expect = w,
                            !.res = verify_artifact(lib.token, pem_public(k), w)]
    /\ UNCHANGED <<srvVars, mw>>

LibReset ==
    /\ lib.pc = "verified"
    /\ lib' = LibStart
    /\ UNCHANGED <<srvVars, mw>>

LibNext == LibSign \/ LibTamperPayload \/ LibTamperSignature \/ LibVerify \/ LibReset

(***************************************************************************)
(* The reference server (src/fedmcp_server.py).                           *)
(***************************************************************************)
\* request slots; Spec handles one request at a time in slot 1, SpecConc
\* one request in each slot
Procs == {1, 2}

IdA == "00000000-0000-0000-0000-0000000000a1"

W1 == "11111111-1111-1111-1111-111111111111"

W2 == "22222222-2222-2222-2222-222222222222"

NilUuid == "00000000-0000-0000-0000-000000000000"

\* artifact ids of requests: "a1" is not the text of a UUID
ArtifactIds == {"a1", IdA}

Workspaces == {W1, W2}

\* texts uuid.UUID accepts (all in canonical form, so str(UUID(s)) = s)
UuidTexts == {IdA, W1, W2, NilUuid}

\* uuid.UUID(s) raises ValueError outside UuidTexts
UUID(s) == PyUuid(s)

CurrentUser == "user:token123"

ArtifactTypes == {"policy", "prompt-template", "tool-manifest"}

\* Artifact.validate
validate(a) ==
    /\ a.k = "dict"
    /\ \A i \in 1..Len(ArtifactFields) : HasKey(a, ArtifactFields[i])
    /\ Get(a, "id").k = "str" /\ Get(a, "id").s # ""
    /\ Get(a, "type").k = "str" /\ Get(a, "type").s \in ArtifactTypes
    /\ Get(a, "version").k = "int" /\ Get(a, "version").n >= 0
    /\ Get(a, "workspaceId").k = "str" /\ Get(a, "workspaceId").s # ""

\* artifacts of CreateArtifact requests; the last one fails validation
ReqArtifacts ==
    {MkArtifact(IdA, "policy", v, w, b) : v \in {1, 2}, w \in Workspaces, b \in {BodyX, BodyY}}
    \cup {MkArtifact("a1", "policy", 1, w, BodyX) : w \in Workspaces}
    \cup {MkArtifact(IdA, "policy", -1, W1, BodyX)}

\* the signer of the server and the keyring built from it at start-up
ServerKey == "k1"

ServerKeyring == [kid \in {KidOf[ServerKey]} |-> pem_public(ServerKey)]

\* signer.sign(artifact); r is the nonce ECDSA draws
Signer_sign(artifact, r) ==
    JWS_sign(json_dumps(artifact), from_pem(pem_private(ServerKey)),
             ProtectedHeader(KidOf[ServerKey]), r)

\* verifier.verify(jws): expected = "" when the caller gives no workspace
Verifier_verify(jws_compact, keyring, expected) ==
    LET token == JWS_deserialize(jws_compact)
    IN  IF ~token.ok THEN VerifyError("MalformedTokenError")
        ELSE IF ~HasKey(token.header, "kid")
                \/ Get(token.header, "kid").s \notin DOMAIN keyring
          THEN VerifyError("UnknownKeyError")
        ELSE IF ~HasKey(token.header, "alg") \/ Get(token.header, "alg") # PyStr("ES256")
          THEN VerifyError("AlgorithmMismatchError")
        ELSE IF ~JWS_verify(keyring[Get(token.header, "kid").s], token)
          THEN VerifyError("InvalidSignatureError")
        ELSE LET art == json_loads(token.payload)
             IN  IF ~art.ok \/ ~validate(art.v) THEN VerifyError("MalformedPayloadError")
                 ELSE IF expected # "" /\ Get(art.v, "workspaceId") # PyStr(expected)
                   THEN VerifyError("WorkspaceMismatchError")
                 ELSE VerifyOk(art.v)

(***************************************************************************)
(* Storage backends.  A file (an object) holds the JSON text of the       *)
(* document; NoFile is the absence of the file.                           *)
(***************************************************************************)
NoFile == <<>>

\* store_artifact that leaves an existing file as it is
LocalStorage_store_KeepExisting(fs, artifact_id, data) ==
    IF fs[artifact_id] = NoFile THEN [fs EXCEPT ![artifact_id] = json_dumps(data)]
    ELSE fs

\* store_artifact that opens the file without truncating it: what the old
\* text holds beyond the length of the new text stays in the file
LocalStorage_store_NoTruncate(fs, artifact_id, data) ==
    LET new == json_dumps(data)
        old == fs[artifact_id]
    IN  [fs EXCEPT ![artifact_id] =
            IF Len(old) > Len(new) THEN new \o SubSeq(old, Len(new) + 1, Len(old))
            ELSE new]

\* LocalStorage.store_artifact: open(file_path, 'w'); json.dump(data, f)
LocalStorage_store(fs, artifact_id, data) ==
    [fs EXCEPT ![artifact_id] = json_dumps(data)]

\* LocalStorage.get_artifact: None when the file does not exist
LocalStorage_get(fs, artifact_id) ==
    IF artifact_id \notin DOMAIN fs \/ fs[artifact_id] = NoFile THEN PyNone
    ELSE json_loads(fs[artifact_id]).v

\* S3Storage.store_artifact: put_object(Body=json.dumps(data))
S3Storage_store(fs, artifact_id, data) ==
    [fs EXCEPT ![artifact_id] = json_dumps(data)]

\* S3Storage.get_artifact: None on NoSuchKey
S3Storage_get(fs, artifact_id) ==
    IF artifact_id \notin DOMAIN fs \/ fs[artifact_id] = NoFile THEN PyNone
    ELSE json_loads(fs[artifact_id]).v

storage_store(fs, artifact_id, data) ==
    IF backend = "s3" THEN S3Storage_store(fs, artifact_id, data)
    ELSE LocalStorage_store(fs, artifact_id, data)

storage_get(fs, artifact_id) ==
    IF backend = "s3" THEN S3Storage_get(fs, artifact_id)
    ELSE LocalStorage_get(fs, artifact_id)

(***************************************************************************)
(* Audit log.                                                              *)
(***************************************************************************)
\* log_audit_event raises ValueError when UUID(...) rejects an id
AuditRaises(artifact_id, workspace_id) ==
    \/ artifact_id # "" /\ artifact_id \notin UuidTexts
    \/ workspace_id # "" /\ workspace_id \notin UuidTexts

\* event.model_dump(by_alias=True); eventId is fresh for every event
AuditEvent(action, actor, artifact_id, workspace_id, n) ==
    PyDict(<< <<"eventId", PyInt(n)>>,
              <<"artifactId", IF artifact_id # "" THEN UUID(artifact_id) ELSE PyNone>>,
              <<"workspaceId", IF workspace_id # "" THEN UUID(workspace_id)
                               ELSE UUID(NilUuid)>>,
              <<"action", PyStr(action)>>,
              <<"actor", PyStr(actor)>>,
              <<"metadata", PyDict(<<>>)>> >>)

\* log_audit_event with the append left out
log_audit_event_NoAppend(log, action, actor, artifact_id, workspace_id) == log

\* log_audit_event putting the event in front of the list
log_audit_event_Prepend(log, action, actor, artifact_id, workspace_id) ==
    <<AuditEvent(action, actor, artifact_id, workspace_id, Len(log) + 1)>> \o log

\* log_audit_event: audit_logs.append(event.model_dump(by_alias=True))
log_audit_event(log, action, actor, artifact_id, workspace_id) ==
    Append(log, AuditEvent(action, actor, artifact_id, workspace_id, Len(log) + 1))

(***************************************************************************)
(* Request handling.  A handler runs from its receipt to its response     *)
(* without another handler running in between; create_artifact is split   *)
(* at its steps (validate, sign, store, audit, return) so that the state  *)
(* between two steps can be observed.                                      *)
(***************************************************************************)
NoReq == [op |-> "none", artifact |-> PyNone, sign |-> FALSE, id |-> "",
          jws |-> <<>>, expected |-> "", workspace_id |-> "", limit |-> 0]

NoResp == [status |-> 0, body |-> PyNone]

\* order: position of the handler's store call among the store calls so far
NoLoc == [artifact |-> PyNone, jws_token |-> <<>>, stored |-> FALSE, order |-> 0]

\* number of store calls made by the handlers in flight or answered last
StoresSoFar ==
    LET m == CHOOSE q \in Procs : \A o \in Procs : loc[o].order <= loc[q].order
    IN  loc[m].order

\* raise HTTPException(status_code=..., detail=str(e))
HTTPException(status, detail) ==
    [status |-> status, body |-> PyDict(<< <<"detail", PyStr(detail)>> >>)]

JWSResponse(jws, artifact_id, workspace_id) ==
    [status |-> 200,
     body |-> PyDict(<< <<"jws", PyJws(jws)>>, <<"artifact_id", PyStr(artifact_id)>>,
                        <<"workspace_id", PyStr(workspace_id)>> >>)]

VerifyResponse(valid, artifact, error) ==
    [status |-> 200,
     body |-> PyDict(<< <<"valid", PyBool(valid)>>, <<"artifact", artifact>>,
                        <<"error", error>> >>)]

CanStart(p) ==
    /\ pc[p] \in {"idle", "done"}
    /\ \A q \in Procs : pc[q] \in {"idle", "done"}
    /\ nreq < MaxReqs

Start(p, r) ==
    /\ req' = [req EXCEPT ![p] = r]
    /\ loc' = [loc EXCEPT ![p] = NoLoc]
    /\ snap' = [snap EXCEPT ![p] = [nlog |-> Len(audit_logs), files |-> files]]
    /\ nreq' = nreq + 1

\* POST /artifacts: the request body parsed into CreateArtifactRequest
CreateReceive(p) ==
    /\ CanStart(p)
    /\ \E a \in ReqArtifacts, s \in BOOLEAN :
         Start(p, [NoReq EXCEPT !.op = "create", !.artifact = a, !.sign = s])
    /\ resp' = [resp EXCEPT ![p] = NoResp]
    /\ pc' = [pc EXCEPT ![p] = "received"]
    /\ UNCHANGED <<files, audit_logs, backend, lib, mw>>

\* artifacts of the requests handled concurrently
ConcArtifacts ==
    {MkArtifact(IdA, "policy", 1, W1, BodyX), MkArtifact(IdA, "policy", 1, W2, BodyY),
     MkArtifact("a1", "policy", 1, W1, BodyX)}

\* POST /artifacts received while other requests may be in flight
CreateReceiveConc(p) ==
    /\ pc[p] = "idle"
    /\ nreq < MaxReqs
    /\ \E a \in ConcArtifacts, s \in BOOLEAN :
         Start(p, [NoReq EXCEPT !.op = "create", !.artifact = a, !.sign = s])
    /\ resp' = [resp EXCEPT ![p] = NoResp]
    /\ pc' = [pc EXCEPT ![p] = "received"]
    /\ UNCHANGED <<files, audit_logs, backend, lib, mw>>

\* artifact = Artifact(**request.artifact); artifact.validate()
CreateValidate(p) ==
    /\ pc[p] = "received"
    /\ IF validate(req[p].artifact)
         THEN /\ loc' = [loc EXCEPT ![p].artifact = req[p].artifact]
              /\ pc' = [pc EXCEPT ![p] = "validated"]
              /\ UNCHANGED resp
         ELSE /\ resp' = [resp EXCEPT ![p] = HTTPException(400, "ValidationError")]
              /\ pc' = [pc EXCEPT ![p] = "done"]
              /\ UNCHANGED loc
    /\ UNCHANGED <<files, audit_logs, req, snap, backend, nreq, lib, mw>>

\* create_artifact recording the attempt in the audit log when signing fails
CreateSign_AuditOnFailure(p) ==
    /\ pc[p] = "validated"
    /\ req[p].sign
    /\ \/ \E r \in 1..MaxNonce :
            /\ loc' = [loc EXCEPT ![p].jws_token = Signer_sign(loc[p].artifact, r)]
            /\ pc' = [pc EXCEPT ![p] = "signed"]
            /\ UNCHANGED <<resp, audit_logs>>
       \/ /\ resp' = [resp EXCEPT ![p] = HTTPException(400, "SigningError")]
          /\ audit_logs' = log_audit_event(audit_logs, "create", CurrentUser,
                                           Get(loc[p].artifact, "id").s, "")
          /\ pc' = [pc EXCEPT ![p] = "done"]
          /\ UNCHANGED loc
    /\ UNCHANGED <<files, req, snap, backend, nreq, lib, mw>>

\* if request.sign: jws_token = signer.sign(artifact), which may raise
CreateSign(p) ==
    /\ pc[p] = "validated"
    /\ req[p].sign
    /\ \/ \E r \in 1..MaxNonce :
            /\ loc' = [loc EXCEPT ![p].jws_token = Signer_sign(loc[p].artifact, r)]
            /\ pc' = [pc EXCEPT ![p] = "signed"]
            /\ UNCHANGED resp
       \/ /\ resp' = [resp EXCEPT ![p] = HTTPException(400, "SigningError")]
          /\ pc' = [pc EXCEPT ![p] = "done"]
          /\ UNCHANGED loc
    /\ UNCHANGED <<files, audit_logs, req, snap, backend, nreq, lib, mw>>

\* the document create_artifact stores: "jws" only when signed
Document(artifact, sign, jws_token) ==
    IF sign THEN PyDict(<< <<"artifact", artifact>>, <<"jws", PyJws(jws_token)>> >>)
    ELSE PyDict(<< <<"artifact", artifact>> >>)

\* create_artifact storing the document without waiting for the signature
CreateStore_BeforeSign(p) ==
    /\ pc[p] \in {"validated", "signed"}
    /\ files' = storage_store(files, Get(loc[p].artifact, "id").s,
                              Document(loc[p].artifact, req[p].sign, loc[p].jws_token))
    /\ loc' = [loc EXCEPT ![p].stored = TRUE, ![p].order = StoresSoFar + 1]
    /\ pc' = [pc EXCEPT ![p] = "stored"]
    /\ UNCHANGED <<resp, audit_logs, req, snap, backend, nreq, lib, mw>>

\* await storage.store_artifact(str(artifact.id), {...}); put_object may raise
CreateStore(p) ==
    /\ \/ pc[p] = "signed"
       \/ pc[p] = "validated" /\ ~req[p].sign
    /\ \/ /\ files' = storage_store(files, Get(loc[p].artifact, "id").s,
                                    Document(loc[p].artifact, req[p].sign, loc[p].jws_token))
          /\ loc' = [loc EXCEPT ![p].stored = TRUE, ![p].order = StoresSoFar + 1]
          /\ pc' = [pc EXCEPT ![p] = "stored"]
          /\ UNCHANGED resp
       \/ /\ backend = "s3"
          /\ resp' = [resp EXCEPT ![p] = HTTPException(400, "StorageError")]
          /\ pc' = [pc EXCEPT ![p] = "done"]
          /\ UNCHANGED <<files, loc>>
    /\ UNCHANGED <<audit_logs, req, snap, backend, nreq, lib, mw>>

\* await log_audit_event(action=AuditAction.CREATE, ...)
CreateAudit(p) ==
    /\ pc[p] = "stored"
    /\ LET aid == Get(loc[p].artifact, "id").s
           wid == Get(loc[p].artifact, "workspaceId").s
       IN  IF AuditRaises(aid, wid)
             THEN /\ resp' = [resp EXCEPT ![p] = HTTPException(400, "ValueError")]
                  /\ pc' = [pc EXCEPT ![p] = "done"]
                  /\ UNCHANGED audit_logs
             ELSE /\ audit_logs' = log_audit_event(audit_logs, "create", CurrentUser, aid, wid)
                  /\ pc' = [pc EXCEPT ![p] = "audited"]
                  /\ UNCHANGED resp
    /\ UNCHANGED <<files, req, loc, snap, backend, nreq, lib, mw>>

\* return JWSResponse(jws=jws_token or "", ...)
CreateReturn(p) ==
    /\ pc[p] = "audited"
    /\ resp' = [resp EXCEPT ![p] =
                  JWSResponse(loc[p].jws_token, Get(loc[p].artifact, "id").s,
                              Get(loc[p].artifact, "workspaceId").s)]
    /\ pc' = [pc EXCEPT ![p] = "done"]
    /\ UNCHANGED <<files, audit_logs, req, loc, snap, backend, nreq, lib, mw>>

\* data["artifact"].get("workspaceId") as the text given to log_audit_event
WorkspaceOf(data) ==
    IF HasKey(data, "artifact") /\ HasKey(Get(data, "artifact"), "workspaceId")
      THEN Get(Get(data, "artifact"), "workspaceId").s
    ELSE ""

\* GET /artifacts/{artifact_id}
GetArtifact(p) ==
    /\ CanStart(p)
    /\ \E id \in ArtifactIds :
         LET data == storage_get(files, id)
         IN  /\ Start(p, [NoReq EXCEPT !.op = "get", !.id = id])
             /\ IF data = PyNone \/ data = PyDict(<<>>)
                  THEN /\ resp' = [resp EXCEPT ![p] = HTTPException(404, "Artifact not found")]
                       /\ UNCHANGED audit_logs
                ELSE IF AuditRaises(id, WorkspaceOf(data))
                  THEN /\ resp' = [resp EXCEPT ![p] = HTTPException(500, "ValueError")]
                       /\ UNCHANGED audit_logs
                ELSE /\ audit_logs' = log_audit_event(audit_logs, "read", CurrentUser, id,
                                                      WorkspaceOf(data))
                     /\ resp' = [resp EXCEPT ![p] = [status |-> 200, body |-> data]]
    /\ pc' = [pc EXCEPT ![p] = "done"]
    /\ UNCHANGED <<files, backend, lib, mw>>

\* tokens a caller may present: those held in storage, and a malformed one
KnownTokens ==
    {Get(storage_get(files, id), "jws").j :
        id \in {i \in ArtifactIds : HasKey(storage_get(files, i), "jws")}}
    \cup {<<>>}

\* POST /artifacts/verify: VerifyRequest carries the token only; the
\* workspace the caller expects (req.expected) has no field to travel in
VerifyToken(p) ==
    /\ CanStart(p)
    /\ \E tok \in KnownTokens, w \in Workspaces :
         LET r == Verifier_verify(tok, ServerKeyring, "")
             aid == Get(r.art, "id").s
             wid == Get(r.art, "workspaceId").s
         IN  /\ Start(p, [NoReq EXCEPT !.op = "verify", !.jws = tok, !.expected = w])
             /\ IF ~r.ok
                  THEN /\ resp' = [resp EXCEPT ![p] = VerifyResponse(FALSE, PyNone, PyStr(r.err))]
                       /\ UNCHANGED audit_logs
                ELSE IF AuditRaises(aid, wid)
                  THEN /\ resp' = [resp EXCEPT ![p] =
                                     VerifyResponse(FALSE, PyNone, PyStr("ValueError"))]
                       /\ UNCHANGED audit_logs
                ELSE /\ audit_logs' = log_audit_event(audit_logs, "verify", CurrentUser, aid, wid)
                     /\ resp' = [resp EXCEPT ![p] = VerifyResponse(TRUE, r.art, PyNone)]
    /\ pc' = [pc EXCEPT ![p] = "done"]
    /\ UNCHANGED <<files, backend, lib, mw>>

(***************************************************************************)
(* Listing and audit query.                                                *)
(***************************************************************************)
\* the sequences that hold every element of the set ids once
Orders(ids) ==
    {q \in [1..Cardinality(ids) -> ids] :
        \A i, j \in 1..Cardinality(ids) : q[i] = q[j] => i = j}

\* data.get("artifact", {}).get("workspaceId") == workspace_id
DocInWorkspace(data, workspace_id) ==
    /\ HasKey(data, "artifact")
    /\ HasKey(Get(data, "artifact"), "workspaceId")
    /\ Get(Get(data, "artifact"), "workspaceId") = PyStr(workspace_id)

\* LocalStorage.list_artifacts that ignores the workspace
LocalStorage_list_NoFilter(fs, workspace_id) ==
    Orders({id \in DOMAIN fs : fs[id] # NoFile})

\* LocalStorage.list_artifacts: the stems of *.json in the order glob
\* yields them, which no rule fixes; the results possible
LocalStorage_list(fs, workspace_id) ==
    Orders({id \in DOMAIN fs :
              /\ fs[id] # NoFile
              /\ workspace_id # "" => DocInWorkspace(json_loads(fs[id]).v, workspace_id)})

\* keys in the order list_objects_v2 returns them (ascending)
KeyOrder == <<IdA, "a1">>

\* S3Storage.list_artifacts: every key under artifacts/, workspace_id unused
S3Storage_list(fs, workspace_id) ==
    {SelectSeq(KeyOrder, LAMBDA id : fs[id] # NoFile)}

storage_list(fs, workspace_id) ==
    IF backend = "s3" THEN S3Storage_list(fs, workspace_id)
    ELSE LocalStorage_list(fs, workspace_id)

\* GET /artifacts
ListArtifacts(p) ==
    /\ CanStart(p)
    /\ \E w \in Workspaces \cup {""} :
         \E artifact_ids \in storage_list(files, w) :
             /\ Start(p, [NoReq EXCEPT !.op = "list", !.workspace_id = w])
             /\ resp' = [resp EXCEPT ![p] =
                  [status |-> 200,
                   body |-> PyDict(<< <<"artifacts",
                                        PyList([i \in 1..Len(artifact_ids) |->
                                                   PyStr(artifact_ids[i])])>>,
                                      <<"count", PyInt(Len(artifact_ids))>> >>)]]
    /\ pc' = [pc EXCEPT ![p] = "done"]
    /\ UNCHANGED <<files, audit_logs, backend, lib, mw>>

\* a handler stores a document: await storage.store_artifact(str(artifact.id), {...})
StoreArtifact ==
    /\ \A q \in Procs : pc[q] \in {"idle", "done"}
    /\ \E a \in {x \in ReqArtifacts : validate(x)} :
         files' = storage_store(files, Get(a, "id").s, Document(a, FALSE, <<>>))
    /\ UNCHANGED <<audit_logs, pc, req, resp, loc, snap, backend, nreq, lib, mw>>

\* lst[-limit:]
LastItems(lst, limit) ==
    LET len == Len(lst)
        start == IF limit > 0 THEN (IF limit >= len THEN 1 ELSE len - limit + 1)
                 ELSE (IF -limit >= len THEN len + 1 ELSE -limit + 1)
    IN  SubSeq(lst, start, len)

\* e.get(key) == text: a str equals no UUID object and not None
FieldIs(e, key, text) == HasKey(e, key) /\ Get(e, key) = PyStr(text)

\* get_audit_events without the workspace filter
get_audit_events_NoWorkspaceFilter(log, artifact_id, workspace_id, limit) ==
    LET events == LastItems(log, limit)
    IN  IF artifact_id # ""
          THEN SelectSeq(events, LAMBDA e : FieldIs(e, "artifactId", artifact_id))
        ELSE events

\* get_audit_events: slice, then filter by artifact, then by workspace
get_audit_events(log, artifact_id, workspace_id, limit) ==
    LET events == LastItems(log, limit)
        byArtifact == IF artifact_id # ""
                        THEN SelectSeq(events, LAMBDA e : FieldIs(e, "artifactId", artifact_id))
                      ELSE events
    IN  IF workspace_id # ""
          THEN SelectSeq(byArtifact, LAMBDA e : FieldIs(e, "workspaceId", workspace_id))
        ELSE byArtifact

\* query parameters of GET /audit/events ("" is an absent parameter)
AuditIdFilters == {"", IdA}

AuditWsFilters == {"", W1}

Limits == 0..MaxLimit

\* GET /audit/events
QueryAudit(p) ==
    /\ CanStart(p)
    /\ \E artifact_id \in AuditIdFilters, workspace_id \in AuditWsFilters, limit \in Limits :
         /\ Start(p, [NoReq EXCEPT !.op = "audit", !.id = artifact_id,
                                   !.workspace_id = workspace_id, !.limit = limit])
         /\ resp' = [resp EXCEPT ![p] =
              [status |-> 200,
               body |-> PyDict(<< <<"events",
                                    PyList(get_audit_events(audit_logs, artifact_id,
                                                            workspace_id, limit))>> >>)]]
    /\ pc' = [pc EXCEPT ![p] = "done"]
    /\ UNCHANGED <<files, audit_logs, backend, lib, mw>>

\* a handler records an event: await log_audit_event(action, actor, ...)
LogAuditEvent ==
    /\ Len(audit_logs) < MaxLog
    /\ \A q \in Procs : pc[q] \in {"idle", "done"}
    /\ \E action \in {"create", "read"}, workspace_id \in Workspaces :
         audit_logs' = log_audit_event(audit_logs, action, CurrentUser, IdA, workspace_id)
    /\ UNCHANGED <<files, pc, req, resp, loc, snap, backend, nreq, lib, mw>>

(***************************************************************************)
(* The audit middleware of the light-weight server (src/fed_server.py).   *)
(***************************************************************************)
MwStart(group) ==
    [pc |-> "start", log_group |-> group, path |-> "", method |-> "", raw_body |-> "",
     sha256 |-> "", contains_pii |-> FALSE, sink_raised |-> FALSE, sent |-> 0,
     handled |-> FALSE, status |-> 0, header |-> ""]

\* hashlib.sha256(raw_body).hexdigest(), one digest per body
sha256Of == [b \in {"", "{}", "ssn 078-05-1120"} |->
               CASE b = "" -> "e3b0c442" [] b = "{}" -> "44136fa3" [] OTHER -> "5f1c0a7e"]

\* raw_body = await request.body(); sha256 = hashlib.sha256(raw_body).hexdigest()
MwReceive ==
    /\ mw.pc = "start"
    /\ \E path \in {"/health", "/artifacts"}, method \in {"GET", "POST"},
          b \in DOMAIN sha256Of :
         mw' = [mw EXCEPT !.pc = "received", !.path = path, !.method = method,
                          !.raw_body = b, !.sha256 = sha256Of[b]]
    /\ UNCHANGED <<srvVars, lib>>

\* contains_pii = bool(get_analyzer().analyze(...)); except Exception: False
MwScan ==
    /\ mw.pc = "received"
    /\ \/ \E found \in BOOLEAN :
            mw' = [mw EXCEPT !.pc = "scanned", !.contains_pii = found]
       \/ mw' = [mw EXCEPT !.pc = "scanned", !.contains_pii = FALSE]
    /\ UNCHANGED <<srvVars, lib>>

\* _emit_audit(record): returns at once without a sink; otherwise
\* _logs.put_log_events(...), whose exception nothing catches
MwEmit ==
    /\ mw.pc = "scanned"
    /\ \/ /\ ~mw.log_group
          /\ mw' = [mw EXCEPT !.pc = "emitted"]
       \/ /\ mw.log_group
          /\ mw' = [mw EXCEPT !.pc = "emitted", !.sent = mw.sent + 1]
       \/ /\ mw.log_group
          /\ mw' = [mw EXCEPT !.pc = "done", !.sink_raised = TRUE, !.status = 500]
    /\ UNCHANGED <<srvVars, lib>>

\* response = await call_next(request)
MwCallNext ==
    /\ mw.pc = "emitted"
    /\ mw' = [mw EXCEPT !.pc = "called", !.handled = TRUE,
                        !.status = IF mw.path = "/health" /\ mw.method = "GET"
                                     THEN 200 ELSE 404]
    /\ UNCHANGED <<srvVars, lib>>

\* response.headers["X-Content-SHA256"] = sha256; return response
MwRespond ==
    /\ mw.pc = "called"
    /\ mw' = [mw EXCEPT !.pc = "done", !.header = mw.sha256]
    /\ UNCHANGED <<srvVars, lib>>

MwNext == MwReceive \/ MwScan \/ MwEmit \/ MwCallNext \/ MwRespond

(***************************************************************************)
(* Specifications.                                                         *)
(***************************************************************************)
SrvInit ==
    /\ files = [i \in ArtifactIds |-> NoFile]
    /\ audit_logs = <<>>
    /\ pc = [p \in Procs |-> "idle"]
    /\ req = [p \in Procs |-> NoReq]
    /\ resp = [p \in Procs |-> NoResp]
    /\ loc = [p \in Procs |-> NoLoc]
    /\ snap = [p \in Procs |-> [nlog |-> 0, files |-> [i \in ArtifactIds |-> NoFile]]]
    /\ nreq = 0

Init ==
    /\ SrvInit
    /\ backend \in {"local", "s3"}
    /\ lib = LibStart
    /\ mw = MwStart(FALSE)

Next ==
    \E p \in {1} :
        \/ CreateReceive(p)
        \/ CreateValidate(p)
        \/ CreateSign(p)
        \/ CreateStore(p)
        \/ CreateAudit(p)
        \/ CreateReturn(p)
        \/ GetArtifact(p)
        \/ VerifyToken(p)
        \/ ListArtifacts(p)
        \/ QueryAudit(p)

Spec == Init /\ [][Next]_vars

InitLib ==
    /\ SrvInit
    /\ backend = "local"
    /\ lib = LibStart
    /\ mw = MwStart(FALSE)

SpecLib == InitLib /\ [][LibNext]_vars

\* CreateArtifact requests in flight together, one per slot; the steps of
\* the handlers interleave, which covers a switch at every await
ConcNext ==
    \E p \in Procs :
        \/ CreateReceiveConc(p)
        \/ CreateValidate(p)
        \/ CreateSign(p)
        \/ CreateStore(p)
        \/ CreateAudit(p)
        \/ CreateReturn(p)

SpecConc == Init /\ [][ConcNext]_vars

\* the audit log and its query: events recorded by handlers, then queried
AuditNext == LogAuditEvent \/ QueryAudit(1)

SpecAudit == InitLib /\ [][AuditNext]_vars

\* the storage backends and their listing: documents stored, then listed
StoreNext == StoreArtifact \/ ListArtifacts(1)

SpecStore == Init /\ [][StoreNext]_vars

InitMw ==
    /\ SrvInit
    /\ backend = "local"
    /\ lib = LibStart
    /\ mw \in {MwStart(g) : g \in BOOLEAN}

SpecMw == InitMw /\ [][MwNext]_vars

(***************************************************************************)
(* Properties of sign_artifact / verify_artifact (SpecLib).               *)
(***************************************************************************)
LibVerified == lib.pc = "verified"

LibMatching ==
    /\ LibVerified
    /\ lib.changed = "none"
    /\ lib.pub = lib.key

SameFields(a, b) ==
    \A i \in 1..Len(ArtifactFields) :
        /\ HasKey(a, ArtifactFields[i])
        /\ Get(a, ArtifactFields[i]) = Get(b, ArtifactFields[i])

\* C1: verifying the token sign produced for a valid artifact, with the
\* matching public key and the artifact's own workspace as the expected
\* workspace, succeeds and returns an artifact equal to it field for field.
C1_RoundTrip ==
    (LibMatching /\ PyStr(lib.expect) = Get(lib.art, "workspaceId"))
        => (lib.res.ok /\ SameFields(lib.res.art, lib.art))

C1_Witness ==
    /\ LibMatching
    /\ PyStr(lib.expect) = Get(lib.art, "workspaceId")
    /\ Get(lib.art, "jsonBody") = BodyY
    /\ lib.res.ok
    /\ Get(lib.res.art, "jsonBody") = BodyY

\* C2: verifying a token signed for workspace W1 with an expected workspace
\* W2 # W1 fails with the workspace-mismatch error and returns no artifact,
\* although the signature check passes.
C2_WorkspaceBinding ==
    (LibMatching /\ PyStr(lib.expect) # Get(lib.art, "workspaceId"))
        => (~lib.res.ok /\ lib.res.err = "workspaceId mismatch" /\ lib.res.art = PyNone)

C2_Witness ==
    /\ LibMatching
    /\ Get(lib.art, "workspaceId") = PyStr("ws-1")
    /\ lib.expect = "ws-2"
    /\ JWS_verify(from_pem(pem_public(lib.pub)), JWS_deserialize(lib.token))
    /\ lib.res.err = "workspaceId mismatch"

LibChanged == LibVerified /\ lib.changed \in {"payload", "signature"}

Rejected == ~lib.res.ok /\ lib.res.err \in {"InvalidJWSSignature", "InvalidJWSObject"}

\* C4 as stated: verify (with the matching public key) returns no artifact
\* for any token obtained from a signed token by changing its payload
\* segment or its signature segment.
C4_AnyChangeRejected == (LibChanged /\ lib.pub = lib.key) => ~lib.res.ok

\* C4 amended: for a token whose payload or signature segment was changed,
\* verify never returns an artifact other than the one signed, and it
\* rejects (invalid signature or malformed token) every change that makes
\* the segment undecodable, alters the decoded payload bytes, or puts in
\* place of the signature bytes that are not a signature, by the key pair
\* of the verifier's public key, over the token's header and payload.
C4_TamperDetection ==
    LibChanged =>
        /\ lib.res.ok => lib.res.art = lib.art
        /\ (lib.changed = "payload"
            /\ (~lib.token[2].ok \/ lib.token[2].data # lib.signed[2].data)) => Rejected
        /\ (lib.changed = "signature"
            /\ (\/ ~lib.token[3].ok
                \/ lib.token[3].data.signer # lib.pub
                \/ lib.token[3].data.input # lib.signed[3].data.input)) => Rejected

C4_Witness ==
    /\ LibChanged
    /\ lib.pub = lib.key
    /\ lib.changed = "payload"
    /\ lib.token[2].ok
    /\ lib.token[2].data # lib.signed[2].data
    /\ json_loads(lib.token[2].data).ok
    /\ lib.res.err = "InvalidJWSSignature"

\* C5: verifying a structurally valid token whose header kid is not in the
\* verifier's keyring never returns an artifact (it fails with the
\* unknown-key error).
C5_UnknownKidRejected ==
    (LibVerified /\ lib.changed = "none" /\ lib.kid \notin KeyringOf(lib.pub))
        => ~lib.res.ok

(***************************************************************************)
(* Properties of the reference server (Spec).                             *)
(***************************************************************************)
Done(p, op) == pc[p] = "done" /\ req[p].op = op

IsCreateEvent(e, artifact_id) ==
    Get(e, "action") = PyStr("create") /\ Get(e, "artifactId") = UUID(artifact_id)

\* a CreateArtifact of artifact_id returned success: its audit event exists
CreatedOk(artifact_id) ==
    \E i \in 1..Len(audit_logs) : IsCreateEvent(audit_logs[i], artifact_id)

RespValid(p) == Get(resp[p].body, "valid") = PyBool(TRUE)

\* C3: after CreateArtifact of an artifact with sign=true, VerifyToken with
\* that token and the artifact's workspace as the expected workspace answers
\* valid=true with the artifact, and VerifyToken with another expected
\* workspace does not answer valid=true.
C3_VerifyTokenBinding ==
    \A p \in Procs : Done(p, "verify") =>
        \A id \in ArtifactIds :
            LET doc == storage_get(files, id)
            IN  (HasKey(doc, "jws") /\ Get(doc, "jws").j = req[p].jws /\ CreatedOk(id)) =>
                  IF PyStr(req[p].expected) = Get(Get(doc, "artifact"), "workspaceId")
                    THEN RespValid(p)
                         /\ Get(resp[p].body, "artifact") = Get(doc, "artifact")
                  ELSE ~RespValid(p)

\* C6: on either storage backend, get(id) after store(id, doc), with no
\* other store to id in between, returns doc, also when id already held
\* another document.
C6_StoreThenGet ==
    \A p \in Procs : loc[p].stored =>
        storage_get(files, Get(loc[p].artifact, "id").s)
            = Document(loc[p].artifact, req[p].sign, loc[p].jws_token)

C6_Witness ==
    /\ backend = "s3"
    /\ loc[1].stored
    /\ req[1].sign
    /\ snap[1].files[IdA] # NoFile
    /\ snap[1].files[IdA] # files[IdA]
    /\ storage_get(files, IdA) = Document(loc[1].artifact, TRUE, loc[1].jws_token)

Success(p) ==
    /\ pc[p] = "done"
    /\ resp[p].status = 200
    /\ req[p].op \in {"create", "get", "verify"}
    /\ req[p].op = "verify" => RespValid(p)

\* the artifact id a request is about
AboutId(p) ==
    CASE req[p].op = "create" -> Get(req[p].artifact, "id").s
      [] req[p].op = "get" -> req[p].id
      [] req[p].op = "verify" ->
            Get(json_loads(base64url_decode(req[p].jws[2]).data).v, "id").s

ActionOf(op) ==
    CASE op = "create" -> "create" [] op = "get" -> "read" [] op = "verify" -> "verify"

\* C7: a CreateArtifact, GetArtifact or VerifyToken call that returns
\* success has appended exactly one audit event, whose action is create,
\* read or verify respectively and whose artifactId is the artifact's id.
C7_AuditCompleteness ==
    \A p \in Procs : Success(p) =>
        /\ Len(audit_logs) = snap[p].nlog + 1
        /\ Get(audit_logs[Len(audit_logs)], "action") = PyStr(ActionOf(req[p].op))
        /\ Get(audit_logs[Len(audit_logs)], "artifactId") = UUID(AboutId(p))

C7_Witness ==
    /\ Success(1)
    /\ req[1].op = "verify"
    /\ Len(audit_logs) = 2
    /\ Get(audit_logs[2], "action") = PyStr("verify")

FailedAtValidation(p) == Done(p, "create") /\ loc[p].artifact = PyNone

FailedAtSigning(p) ==
    /\ Done(p, "create")
    /\ loc[p].artifact # PyNone
    /\ req[p].sign
    /\ loc[p].jws_token = <<>>

\* C8: a CreateArtifact request that fails at validation or at signing
\* returns an error, appends no audit event and leaves storage unchanged.
C8_FailedCreateLeavesNoTrace ==
    \A p \in Procs : (FailedAtValidation(p) \/ FailedAtSigning(p)) =>
        /\ resp[p].status = 400
        /\ Len(audit_logs) = snap[p].nlog
        /\ files = snap[p].files

C8_Witness ==
    /\ FailedAtSigning(1)
    /\ resp[1].status = 400
    /\ files[IdA] # NoFile
    /\ Len(audit_logs) = 1

\* C9: once a CreateArtifact request has finished, if it persisted its
\* document then it recorded a create audit event for that artifact id.
C9_StoredImpliesAudited ==
    \A p \in Procs : (Done(p, "create") /\ loc[p].stored) =>
        \E i \in (snap[p].nlog + 1)..Len(audit_logs) :
            IsCreateEvent(audit_logs[i], Get(loc[p].artifact, "id").s)

(***************************************************************************)
(* Properties of the audit log and its query (Spec, SpecAudit).           *)
(***************************************************************************)
IsPrefix(a, b) == Len(a) <= Len(b) /\ SubSeq(b, 1, Len(a)) = a

\* C11: the audit log is append-only: in every step the log before the
\* step is a prefix of the log after it, whichever handler takes the step,
\* so a recorded event is never changed, reordered or removed.
C11_AppendOnly == [][IsPrefix(audit_logs, audit_logs')]_vars

C11_Witness ==
    /\ Done(1, "audit")
    /\ Len(audit_logs) = 1
    /\ Items(Get(resp[1].body, "events")) = audit_logs

\* the events a finished audit query returned
Returned(p) == Items(Get(resp[p].body, "events"))

\* the audit log as it was when the request of slot p was received
LogAtReceipt(p) == SubSeq(audit_logs, 1, snap[p].nlog)

\* position of event e in the audit log (eventId is unique)
Pos(e) == CHOOSE k \in 1..Len(audit_logs) : audit_logs[k] = e

\* C12: the result of an audit query is ordered most-recent-first: of two
\* returned events the one recorded later stands earlier in the result.
C12_MostRecentFirst ==
    \A p \in Procs : Done(p, "audit") =>
        \A i, j \in 1..Len(Returned(p)) :
            i < j => Pos(Returned(p)[i]) > Pos(Returned(p)[j])

\* C13: an audit query with limit >= 0 returns at most limit events.
C13_BoundedByLimit ==
    \A p \in Procs : (Done(p, "audit") /\ req[p].limit >= 0) =>
        Len(Returned(p)) <= req[p].limit

\* event e is about the artifact and the workspace of the filters given
Matches(e, artifact_id, workspace_id) ==
    /\ artifact_id # "" => Get(e, "artifactId").s = artifact_id
    /\ workspace_id # "" => Get(e, "workspaceId").s = workspace_id

MostRecent(lst, n) == SubSeq(lst, IF n >= Len(lst) THEN 1 ELSE Len(lst) - n + 1, Len(lst))

\* the elements of a sequence
Range(lst) == {lst[i] : i \in 1..Len(lst)}

\* C20: an audit query with a filter and limit L >= 1 returns the
\* min(L, k) most recent of the k recorded events that match the filters,
\* however many events that do not match were recorded after them.
C20_FilterWholeLog ==
    \A p \in Procs :
        (Done(p, "audit") /\ req[p].limit >= 1
         /\ (req[p].id # "" \/ req[p].workspace_id # "")) =>
            LET matching == SelectSeq(LogAtReceipt(p),
                               LAMBDA e : Matches(e, req[p].id, req[p].workspace_id))
            IN  Range(Returned(p)) = Range(MostRecent(matching, req[p].limit))

(***************************************************************************)
(* Properties of storage (SpecStore, Spec).                               *)
(***************************************************************************)
\* the artifact of the document held under id
StoredArtifact(fs, id) == Get(json_loads(fs[id]).v, "artifact")

\* the ids a finished list request returned
Listed(p) == Items(Get(resp[p].body, "artifacts"))

\* C15: on the filesystem backend, list with a workspace returns exactly
\* the ids whose document, as stored when the request is handled, has
\* artifact.workspaceId equal to it, and list without a workspace exactly
\* the ids that hold a document, each once.
C15_ListExact ==
    \A p \in Procs : (Done(p, "list") /\ backend = "local") =>
        LET expected == {id \in ArtifactIds :
                           /\ snap[p].files[id] # NoFile
                           /\ req[p].workspace_id # "" =>
                                Get(StoredArtifact(snap[p].files, id), "workspaceId").s
                                    = req[p].workspace_id}
        IN  /\ {Listed(p)[i].s : i \in 1..Len(Listed(p))} = expected
            /\ Len(Listed(p)) = Cardinality(expected)

C15_Witness ==
    /\ Done(1, "list") /\ backend = "local"
    /\ req[1].workspace_id = W1
    /\ snap[1].files[IdA] # NoFile /\ snap[1].files["a1"] # NoFile
    /\ Get(StoredArtifact(snap[1].files, IdA), "workspaceId").s = W2
    /\ Get(StoredArtifact(snap[1].files, "a1"), "workspaceId").s = W1
    /\ Listed(1) = <<PyStr("a1")>>

\* C16: the version stored under an artifact id never decreases.
C16_VersionNeverDecreases ==
    [][\A id \in ArtifactIds :
          (files[id] # NoFile /\ files'[id] # NoFile) =>
              Get(StoredArtifact(files', id), "version").n
                  >= Get(StoredArtifact(files, id), "version").n]_vars

\* C17: the snapshot stored for a pair (id, version) is immutable: a store
\* under the same id with the same version leaves type, workspaceId,
\* createdAt and jsonBody as they were.
C17_SnapshotImmutable ==
    [][\A id \in ArtifactIds :
          (/\ files[id] # NoFile /\ files'[id] # NoFile
           /\ Get(StoredArtifact(files', id), "version")
                 = Get(StoredArtifact(files, id), "version")) =>
              \A f \in {"type", "workspaceId", "createdAt", "jsonBody"} :
                  Get(StoredArtifact(files', id), f) = Get(StoredArtifact(files, id), f)]_vars

(***************************************************************************)
(* Properties of the steps of create_artifact (Spec, SpecConc).           *)
(***************************************************************************)
\* the steps a CreateArtifact request may take from one position to the next
CreateSteps(sign) ==
    {<<"idle", "received">>, <<"done", "received">>,
     <<"received", "validated">>, <<"received", "done">>,
     <<"validated", "done">>, <<"signed", "stored">>, <<"signed", "done">>,
     <<"stored", "audited">>, <<"stored", "done">>, <<"audited", "done">>}
    \cup (IF sign THEN {<<"validated", "signed">>} ELSE {<<"validated", "stored">>})

\* C18: a CreateArtifact request goes through received, validated, signed
\* (only when sign is requested), stored, audited, returned in this order
\* and never back: the document is stored only by the step that follows
\* validation (and signing, when requested), the create event is recorded
\* only by the step that follows the store, and success is returned only
\* by the step that follows the audit.
C18_StepOrder ==
    [][\A p \in Procs :
          /\ (req'[p].op = "create" /\ pc'[p] # pc[p]) =>
                <<pc[p], pc'[p]>> \in CreateSteps(req'[p].sign)
          /\ (req'[p].op = "create" /\ loc'[p].stored /\ ~loc[p].stored) =>
                /\ pc[p] = (IF req[p].sign THEN "signed" ELSE "validated")
                /\ pc'[p] = "stored"
          /\ files' # files => \E q \in Procs : req[q].op = "create" /\ pc'[q] = "stored"
                                                 /\ pc[q] # "stored"
          /\ (req'[p].op = "create" /\ pc'[p] = "audited" /\ pc[p] # "audited") =>
                /\ pc[p] = "stored"
                /\ Len(audit_logs') = Len(audit_logs) + 1
                /\ IsCreateEvent(audit_logs'[Len(audit_logs')], Get(loc[p].artifact, "id").s)
          /\ (req'[p].op = "create" /\ Len(audit_logs') # Len(audit_logs)) =>
                \E q \in Procs : pc[q] = "stored" /\ pc'[q] = "audited"
          /\ (req'[p].op = "create" /\ resp'[p] # resp[p] /\ resp'[p].status = 200) =>
                pc[p] = "audited"]_vars

C18_Witness ==
    /\ Done(1, "create")
    /\ req[1].sign
    /\ resp[1].status = 200
    /\ loc[1].jws_token # <<>>
    /\ loc[1].stored
    /\ Len(audit_logs) = snap[1].nlog + 1

\* the slots whose request stored a document under id
Writers(id) ==
    {p \in Procs : loc[p].stored /\ Get(loc[p].artifact, "id").s = id}

\* the slot whose store call under id executed last
LastWriter(id) ==
    CHOOSE p \in Writers(id) : \A q \in Writers(id) : loc[q].order <= loc[p].order

\* the slots whose CreateArtifact for (artifact_id, workspace_id) recorded
\* its event, success being returned by the step that follows
Audited(artifact_id, workspace_id) ==
    {p \in Procs :
        /\ req[p].op = "create"
        /\ pc[p] = "audited" \/ (pc[p] = "done" /\ resp[p].status = 200)
        /\ Get(req[p].artifact, "id").s = artifact_id
        /\ Get(req[p].artifact, "workspaceId").s = workspace_id}

\* C19: with CreateArtifact requests running concurrently, the document
\* held under an id is the whole document written by the store call under
\* that id that executed last, an id no request stored under holds nothing,
\* and every request that succeeded has a create audit event of its own.
C19_LastWriterWins ==
    /\ \A id \in ArtifactIds :
          IF Writers(id) = {} THEN files[id] = NoFile
          ELSE files[id] = json_dumps(Document(loc[LastWriter(id)].artifact,
                                               req[LastWriter(id)].sign,
                                               loc[LastWriter(id)].jws_token))
    /\ \A artifact_id \in ArtifactIds, workspace_id \in Workspaces :
          Cardinality({i \in 1..Len(audit_logs) :
                          /\ IsCreateEvent(audit_logs[i], artifact_id)
                          /\ Get(audit_logs[i], "workspaceId") = UUID(workspace_id)})
              = Cardinality(Audited(artifact_id, workspace_id))

C19_Witness ==
    /\ \A p \in Procs : Done(p, "create") /\ resp[p].status = 200
    /\ Writers(IdA) = Procs
    /\ loc[2].order = 1 /\ loc[1].order = 2
    /\ Get(req[1].artifact, "workspaceId").s = W1
    /\ Get(req[2].artifact, "workspaceId").s = W2
    /\ Get(audit_logs[1], "workspaceId") = UUID(W1)
    /\ Get(audit_logs[2], "workspaceId") = UUID(W2)
    /\ StoredArtifact(files, IdA) = req[1].artifact

(***************************************************************************)
(* Properties of the audit middleware (SpecMw).                           *)
(***************************************************************************)
\* C10: a failure of the external audit sink does not fail the request: it
\* is still handled and answered as if the sink had accepted the record.
C10_SinkFailureHarmless ==
    (mw.pc = "done" /\ mw.sink_raised) =>
        (mw.handled /\ mw.status # 500 /\ mw.header = mw.sha256)

=============================================================================
